---- MODULE Spec2Model ----
(***************************************************************************)
(* Model of packages/db/src/internal.ts: the DDL generator                 *)
(* (getCreateTableQuery, getTableIndexQueries, getModifiers,               *)
(* getDefaultValueSql), the table descriptor builder (collectionToTable,   *)
(* columnMapper), the write guard (createLocalDatabaseClient) and the      *)
(* schema installer / seeder (setupDbTables).                              *)
(*                                                                         *)
(* SQL text is a TLA+ string built with \o exactly as the template         *)
(* literals of the source build it.  A string VALUE of the configuration   *)
(* (a text or date default) is a sequence of one-character strings, so     *)
(* that escapeString can double the quotes it contains.                    *)
(***************************************************************************)
EXTENDS Integers, Sequences, FiniteSets, TLC

VARIABLES
    \* ---- field-level run (getModifiers / columnMapper on one field)
    field,          \* the DBField under translation
    modifiers,      \* result of getModifiers(fieldName, field)
    column,         \* result of columnMapper(fieldName, field, mode)
    \* ---- table-level run (one collection through both builders)
    collection,     \* the DBCollection under translation
    createQuery,    \* result of getCreateTableQuery
    indexQueries,   \* result of getTableIndexQueries
    table,          \* result of collectionToTable
    \* ---- setupDbTables run
    collections,    \* the DBCollections mapping, in insertion order
    data,           \* TRUE iff a seed procedure (`data`) is supplied
    pc,             \* position of the setupDbTables run
    setupQueries,   \* the local array setupQueries
    qi,             \* number of statements of setupQueries already awaited
    ran,            \* statements handed to db.run, in order (client side)
    metaSet,        \* number of collections whose _setMeta was called
    seedCalls,      \* number of invocations of the seed procedure `data`
    seedState,      \* position of the seed procedure: idle, running, returned, raised
    seedInserts,    \* number of seed(table, values) inserts performed
    seedResult,     \* shape of what the latest seed(table, values) returned
    logged,         \* number of messages written with logger.error
    outcome,        \* how the setupDbTables promise settled
    \* ---- write guard (createLocalDatabaseClient)
    seeding,        \* the `seeding` argument
    underlying,     \* calls received by drizzle's own insert/update/delete
    calls,          \* number of mutation calls made on the returned client
    lastCall        \* what the latest mutation call on the client did

vars == << field, modifiers, column, collection, createQuery, indexQueries,
           table, collections, data, pc, setupQueries, qi, ran, metaSet,
           seedCalls, seedState, seedInserts, seedResult, logged, outcome,
           seeding, underlying, calls, lastCall >>

fieldVars == << field, modifiers, column >>
tableVars == << collection, createQuery, indexQueries, table >>
setupVars == << data, pc, setupQueries, qi, ran, metaSet, seedCalls,
                seedState, seedInserts, seedResult, logged, outcome >>
guardVars == << seeding, underlying, calls, lastCall >>

(***************************************************************************)
(* Bounds.                                                                 *)
(***************************************************************************)
MaxFields == 2
MaxIndexes == 2
MaxCollections == 2
MaxSeedInserts == 2
MaxCalls == 3

(***************************************************************************)
(* Values of the configuration.                                            *)
(***************************************************************************)
FieldTypes == {"text", "number", "boolean", "date", "json"}

\* A `default` attribute.  def = FALSE is `undefined`; the component that
\* belongs to the field's type carries the value, the others are inert.
\* json: "obj" is {"a":1}, "str" is the string it's, "cyclic" is a structure
\* that refers to itself.
NoDefault == [def |-> FALSE, num |-> 0, bool |-> FALSE, str |-> << >>, json |-> "obj"]
NumDefault(n) == [NoDefault EXCEPT !.def = TRUE, !.num = n]
BoolDefault(b) == [NoDefault EXCEPT !.def = TRUE, !.bool = b]
StrDefault(s) == [NoDefault EXCEPT !.def = TRUE, !.str = s]
JsonDefault(j) == [NoDefault EXCEPT !.def = TRUE, !.json = j]

NumberValues == {0, 7, -1}
TextValues == { << >>, <<"h", "i">>, <<"o", "'", "k">> }
DateValues == { <<"n", "o", "w">>, <<"2", "0", "2", "4">> }
JsonValues == {"obj", "str", "cyclic"}

DefaultsOf(type) ==
    {NoDefault} \cup
    CASE type = "text" -> {StrDefault(s) : s \in TextValues}
      [] type = "number" -> {NumDefault(n) : n \in NumberValues}
      [] type = "boolean" -> {BoolDefault(b) : b \in BOOLEAN}
      [] type = "date" -> {StrDefault(s) : s \in DateValues}
      [] type = "json" -> {JsonDefault(j) : j \in JsonValues}

\* primaryKey exists on TextField and NumberField only.
Fields ==
    UNION { [type : {t}, optional : BOOLEAN, unique : BOOLEAN,
             primaryKey : IF t \in {"text", "number"} THEN BOOLEAN ELSE {FALSE},
             default : DefaultsOf(t)] : t \in FieldTypes }

(***************************************************************************)
(* The SQLite dialect helpers used by the generator.                       *)
(***************************************************************************)
escapeName(name) == "\"" \o name \o "\""

RECURSIVE replaceQuotes(_)
replaceQuotes(s) ==
    IF s = << >> THEN ""
    ELSE (IF Head(s) = "'" THEN "''" ELSE Head(s)) \o replaceQuotes(Tail(s))

escapeString(s) == "'" \o replaceQuotes(s) \o "'"

\* JSON.stringify of a json default: the text it returns, or a throw.
JSONstringify(j) ==
    CASE j = "obj" -> [throws |-> FALSE, text |-> <<"{", "\"", "a", "\"", ":", "1", "}">>]
      [] j = "str" -> [throws |-> FALSE, text |-> <<"\"", "i", "t", "'", "s", "\"">>]
      [] j = "cyclic" -> [throws |-> TRUE, text |-> << >>]

(***************************************************************************)
(* Type mapper and default rules.                                          *)
(***************************************************************************)
hasPrimaryKey(f) == f.primaryKey

schemaTypeToSqlType(type) ==
    CASE type \in {"date", "text", "json"} -> "text"
      [] type \in {"number", "boolean"} -> "integer"

\* `if (field.default)` instead of `if (field.default !== undefined)`.
hasDefault_truthy(f) ==
    \/ /\ f.default.def
       /\ CASE f.type = "number" -> f.default.num # 0
            [] f.type = "boolean" -> f.default.bool
            [] f.type \in {"text", "date"} -> f.default.str # << >>
            [] f.type = "json" -> TRUE
    \/ hasPrimaryKey(f) /\ f.type = "number"

hasDefault(f) ==
    \/ f.default.def
    \/ hasPrimaryKey(f) /\ f.type = "number"

\* The catch of the json case logs and goes on with stringified = ''.
getDefaultValueSql_noExit(columnName, c) ==
    CASE c.type = "boolean" ->
            [exit |-> FALSE, sql |-> IF c.default.bool THEN "TRUE" ELSE "FALSE"]
      [] c.type = "number" ->
            [exit |-> FALSE,
             sql |-> IF c.default.def /\ c.default.num # 0
                     THEN ToString(c.default.num) ELSE "AUTOINCREMENT"]
      [] c.type = "text" ->
            [exit |-> FALSE, sql |-> escapeString(c.default.str)]
      [] c.type = "date" ->
            [exit |-> FALSE,
             sql |-> IF c.default.str = <<"n", "o", "w">>
                     THEN "CURRENT_TIMESTAMP" ELSE escapeString(c.default.str)]
      [] c.type = "json" ->
            LET r == JSONstringify(c.default.json)
            IN  [exit |-> FALSE, sql |-> escapeString(r.text)]

\* The result is [exit, sql]: exit = TRUE is the process.exit(0) of the
\* json case, after which nothing of the process runs.
getDefaultValueSql(columnName, c) ==
    CASE c.type = "boolean" ->
            [exit |-> FALSE, sql |-> IF c.default.bool THEN "TRUE" ELSE "FALSE"]
      [] c.type = "number" ->
            \* `${column.default || 'AUTOINCREMENT'}`: undefined and 0 are falsy
            [exit |-> FALSE,
             sql |-> IF c.default.def /\ c.default.num # 0
                     THEN ToString(c.default.num) ELSE "AUTOINCREMENT"]
      [] c.type = "text" ->
            [exit |-> FALSE, sql |-> escapeString(c.default.str)]
      [] c.type = "date" ->
            [exit |-> FALSE,
             sql |-> IF c.default.str = <<"n", "o", "w">>
                     THEN "CURRENT_TIMESTAMP" ELSE escapeString(c.default.str)]
      [] c.type = "json" ->
            LET r == JSONstringify(c.default.json)
            IN  IF r.throws THEN [exit |-> TRUE, sql |-> ""]
                ELSE [exit |-> FALSE, sql |-> escapeString(r.text)]

\* The result is [exit, sql, hasDefault, defaultSql]: sql is the returned
\* modifier text; hasDefault tells whether line 204 appended a DEFAULT, and
\* defaultSql is the literal it appended.
getModifiers(fieldName, f) ==
    IF hasPrimaryKey(f)
    THEN [exit |-> FALSE, sql |-> " PRIMARY KEY", hasDefault |-> FALSE, defaultSql |-> ""]
    ELSE LET m1 == IF ~f.optional THEN " NOT NULL" ELSE ""
             m2 == m1 \o (IF f.unique THEN " UNIQUE" ELSE "")
         IN  IF hasDefault(f)
             THEN LET d == getDefaultValueSql(fieldName, f)
                  IN  IF d.exit
                      THEN [exit |-> TRUE, sql |-> "", hasDefault |-> FALSE, defaultSql |-> ""]
                      ELSE [exit |-> FALSE, sql |-> m2 \o " DEFAULT " \o d.sql,
                            hasDefault |-> TRUE, defaultSql |-> d.sql]
             ELSE [exit |-> FALSE, sql |-> m2, hasDefault |-> FALSE, defaultSql |-> ""]

(***************************************************************************)
(* Table descriptor builder: one column.                                   *)
(***************************************************************************)
\* A column builder: which builder made it (text, integer, boolean mode of
\* integer, jsonType, dateType) and the markers applied to it.
\* defaultValue is "none", "sql:CURRENT_TIMESTAMP", "literal" (the configured
\* default itself) or "parsed" (the default parsed to a Date).
columnMapper(fieldName, f, isJsonSerializable) ==
    LET base ==
            CASE f.type = "text" -> "text"
              [] f.type = "number" -> "integer"
              [] f.type = "boolean" -> "integer:boolean"
              [] f.type = "json" -> "jsonType"
              [] f.type = "date" -> IF isJsonSerializable THEN "text" ELSE "dateType"
        dflt ==
            IF ~f.default.def THEN "none"
            ELSE IF f.type = "date"
                 THEN IF f.default.str = <<"n", "o", "w">> THEN "sql:CURRENT_TIMESTAMP"
                      ELSE IF isJsonSerializable THEN "literal" ELSE "parsed"
                 ELSE "literal"
    IN  [name |-> fieldName,
         builder |-> base,
         hasDefault |-> f.default.def,
         defaultValue |-> dflt,
         primaryKey |-> f.type \in {"text", "number"} /\ f.primaryKey,
         autoIncrement |-> f.type = "number" /\ f.primaryKey,
         notNull |-> ~f.optional,
         unique |-> f.unique]

(***************************************************************************)
(* Field-level run: one field goes through the DDL path and through the    *)
(* descriptor path.                                                        *)
(***************************************************************************)
NotRun == [done |-> FALSE]

InitIdleField ==
    /\ field = CHOOSE f \in Fields : TRUE
    /\ modifiers = NotRun
    /\ column = NotRun

GetModifiers ==
    /\ ~modifiers.done
    /\ modifiers' = [done |-> TRUE, result |-> getModifiers("f", field)]
    /\ UNCHANGED << field, column >>

ColumnMapper ==
    /\ ~column.done
    /\ \E mode \in BOOLEAN :
         column' = [done |-> TRUE, result |-> columnMapper("f", field, mode)]
    /\ UNCHANGED << field, modifiers >>

(***************************************************************************)
(* Collections.  `fields` and `indexes` are ordered mappings (insertion    *)
(* order is what Object.entries walks), modelled as sequences of           *)
(* [name, value] entries with pairwise distinct names.                     *)
(***************************************************************************)
Name(prefix, i) == prefix \o ToString(i)

SeqsUpTo(S, n) == UNION { [1..k -> S] : k \in 0..n }

\* The fields used when whole collections are translated.
TableFields ==
    { [type |-> "text", optional |-> FALSE, unique |-> FALSE, primaryKey |-> FALSE,
       default |-> NoDefault],
      [type |-> "text", optional |-> FALSE, unique |-> FALSE, primaryKey |-> TRUE,
       default |-> NoDefault],
      [type |-> "number", optional |-> FALSE, unique |-> FALSE, primaryKey |-> TRUE,
       default |-> NoDefault],
      [type |-> "number", optional |-> TRUE, unique |-> FALSE, primaryKey |-> FALSE,
       default |-> NumDefault(0)],
      [type |-> "boolean", optional |-> TRUE, unique |-> TRUE, primaryKey |-> FALSE,
       default |-> BoolDefault(TRUE)],
      [type |-> "json", optional |-> TRUE, unique |-> FALSE, primaryKey |-> FALSE,
       default |-> JsonDefault("cyclic")] }

\* `on` after the normalisation of line 166 / 302 (a single name is the
\* one-element list).  "missing" names no field of any collection.
OnValues == { << >>, <<"f1">>, <<"missing">>, <<"f1", "missing">> }
IndexValues == [on : OnValues, unique : BOOLEAN]

FieldEntries(fs) == [i \in 1..Len(fs) |-> [name |-> Name("f", i), field |-> fs[i]]]
IndexEntries(is) == [i \in 1..Len(is) |-> [name |-> Name("i", i), props |-> is[i]]]

Collections(fieldSeqs, indexSeqs, writables) ==
    { [fields |-> FieldEntries(fs), indexes |-> IndexEntries(is), writable |-> w] :
        fs \in fieldSeqs, is \in indexSeqs, w \in writables }

\* The DBCollections mappings with up to MaxCollections collections drawn
\* from cs, named t1, t2, ... in insertion order.
CollectionMaps(cs, minLen) ==
    { [i \in 1..Len(m) |-> [name |-> Name("t", i), collection |-> m[i]]] :
        m \in UNION { [1..k -> cs] : k \in minLen..MaxCollections } }

FieldNames(c) == { c.fields[i].name : i \in 1..Len(c.fields) }

(***************************************************************************)
(* DDL generator.                                                          *)
(***************************************************************************)
RECURSIVE join(_, _)
join(strs, sep) ==
    IF strs = << >> THEN ""
    ELSE IF Len(strs) = 1 THEN strs[1]
    ELSE strs[1] \o sep \o join(Tail(strs), sep)

\* The `_id` column is pushed whatever the declared fields are.
idColumn_always(c) == << "_id INTEGER PRIMARY KEY" >>

\* Lines 146-151: the synthesized column, pushed first.
idColumn(c) ==
    IF \E i \in 1..Len(c.fields) : hasPrimaryKey(c.fields[i].field)
    THEN << >>
    ELSE << "_id INTEGER PRIMARY KEY" >>

\* Lines 153-155: one column clause.
colQuery(columnName, c) ==
    escapeName(columnName) \o " " \o schemaTypeToSqlType(c.type)
        \o getModifiers(columnName, c).sql

\* The result is [exit, colQueries, sql]: exit = TRUE when the clause of some
\* field ended the process; otherwise colQueries is the local array and sql
\* the returned statement.
getCreateTableQuery(collectionName, c) ==
    IF \E i \in 1..Len(c.fields) : getModifiers(c.fields[i].name, c.fields[i].field).exit
    THEN [exit |-> TRUE, colQueries |-> << >>, sql |-> ""]
    ELSE LET cols == idColumn(c) \o
                     [i \in 1..Len(c.fields) |->
                        colQuery(c.fields[i].name, c.fields[i].field)]
         IN  [exit |-> FALSE, colQueries |-> cols,
              sql |-> "CREATE TABLE " \o escapeName(collectionName) \o " ("
                        \o join(cols, ", ") \o ")"]

\* Lines 166-174: the statement of one index.
indexQuery(collectionName, indexName, indexProps) ==
    LET onCols == [i \in 1..Len(indexProps.on) |-> escapeName(indexProps.on[i])]
        unique == IF indexProps.unique THEN "UNIQUE " ELSE ""
    IN  "CREATE " \o unique \o "INDEX " \o escapeName(indexName) \o " ON "
            \o escapeName(collectionName) \o " (" \o join(onCols, ", ") \o ")"

RECURSIVE indexQueriesFrom(_, _, _, _)
indexQueriesFrom(collectionName, c, entries, skipMissing) ==
    IF entries = << >> THEN << >>
    ELSE LET e == Head(entries)
             rest == indexQueriesFrom(collectionName, c, Tail(entries), skipMissing)
         IN  IF skipMissing /\ \E i \in 1..Len(e.props.on) : e.props.on[i] \notin FieldNames(c)
             THEN rest
             ELSE << indexQuery(collectionName, e.name, e.props) >> \o rest

\* An index that names a column the collection lacks is left out.
getTableIndexQueries_skipMissing(collectionName, c) ==
    indexQueriesFrom(collectionName, c, c.indexes, TRUE)

getTableIndexQueries(collectionName, c) ==
    indexQueriesFrom(collectionName, c, c.indexes, FALSE)

(***************************************************************************)
(* Table descriptor builder: a whole collection.                           *)
(***************************************************************************)
idBuilder ==
    [name |-> "_id", builder |-> "integer", hasDefault |-> FALSE,
     defaultValue |-> "none", primaryKey |-> TRUE, autoIncrement |-> FALSE,
     notNull |-> FALSE, unique |-> FALSE]

\* ormTable[colName]: the name of the built column, or "undefined".
resolve(columns, colName) ==
    IF \E i \in 1..Len(columns) : columns[i].name = colName THEN colName ELSE "undefined"

RECURSIVE tableIndexes(_, _)
tableIndexes(columns, entries) ==
    IF entries = << >> THEN << >>
    ELSE LET e == Head(entries)
             onCols == [i \in 1..Len(e.props.on) |-> resolve(columns, e.props.on[i])]
         IN  IF Len(onCols) > 0     \* atLeastOne
             THEN << [name |-> e.name, on |-> onCols] >> \o tableIndexes(columns, Tail(entries))
             ELSE tableIndexes(columns, Tail(entries))

collectionToTable(name, c, isJsonSerializable) ==
    LET columns ==
            (IF \E i \in 1..Len(c.fields) : hasPrimaryKey(c.fields[i].field)
             THEN << >> ELSE << idBuilder >>)
            \o [i \in 1..Len(c.fields) |->
                  columnMapper(c.fields[i].name, c.fields[i].field, isJsonSerializable)]
    IN  [name |-> name, columns |-> columns,
         indexes |-> tableIndexes(columns, c.indexes)]

(***************************************************************************)
(* Table-level run: one collection goes through getCreateTableQuery,       *)
(* getTableIndexQueries and collectionToTable.                             *)
(***************************************************************************)
InitIdleTable ==
    /\ collection = [fields |-> << >>, indexes |-> << >>, writable |-> TRUE]
    /\ createQuery = NotRun
    /\ indexQueries = NotRun
    /\ table = NotRun

GetCreateTableQuery ==
    /\ ~createQuery.done
    /\ createQuery' = [done |-> TRUE, result |-> getCreateTableQuery("posts", collection)]
    /\ UNCHANGED << collection, indexQueries, table >>

GetTableIndexQueries ==
    /\ ~indexQueries.done
    /\ indexQueries' = [done |-> TRUE, result |-> getTableIndexQueries("posts", collection)]
    /\ UNCHANGED << collection, createQuery, table >>

CollectionToTable ==
    /\ ~table.done
    /\ \E mode \in BOOLEAN :
         table' = [done |-> TRUE, result |-> collectionToTable("posts", collection, mode)]
    /\ UNCHANGED << collection, createQuery, indexQueries >>

(***************************************************************************)
(* Schema installer / seeder: setupDbTables.                               *)
(***************************************************************************)
\* An SQL object made by sql.raw: its text, with the local it was bound to
\* (dropQuery, createQuery, an element of indexQueries) and the collection
\* of the loop iteration that made it.
Stmt(kind, name, text) == [kind |-> kind, collection |-> name, sql |-> text]

collectionQueries(e) ==
    << Stmt("drop", e.name, "DROP TABLE IF EXISTS " \o e.name),
       Stmt("create", e.name, getCreateTableQuery(e.name, e.collection).sql) >>
    \o LET iq == getTableIndexQueries(e.name, e.collection)
       IN  [i \in 1..Len(iq) |-> Stmt("index", e.name, iq[i])]

RECURSIVE flatten(_)
flatten(ss) == IF ss = << >> THEN << >> ELSE Head(ss) \o flatten(Tail(ss))

\* All drops, then all creates, then all indexes.
buildSetupQueries_phased(cols) ==
    LET all == flatten([i \in 1..Len(cols) |-> collectionQueries(cols[i])])
    IN  SelectSeq(all, LAMBDA q : q.kind = "drop")
        \o SelectSeq(all, LAMBDA q : q.kind = "create")
        \o SelectSeq(all, LAMBDA q : q.kind = "index")

\* Lines 100-106: the array setupQueries once the first loop is over.
buildSetupQueries(cols) ==
    flatten([i \in 1..Len(cols) |-> collectionQueries(cols[i])])

\* Whether the first loop reaches the process.exit(0) of getDefaultValueSql.
buildExits(cols) ==
    \E i \in 1..Len(cols) : getCreateTableQuery(cols[i].name, cols[i].collection).exit

ClientErrors == {"SQLITE_ERROR", "SQLITE_BUSY"}
Pending == [kind |-> "pending", error |-> "none"]
Resolved == [kind |-> "resolved", error |-> "none"]
Rejected(e) == [kind |-> "rejected", error |-> e]
Exited == [kind |-> "exit", error |-> "none"]

InitIdleSetup ==
    /\ data = FALSE
    /\ pc = "idle"
    /\ setupQueries = << >>
    /\ qi = 0
    /\ ran = << >>
    /\ metaSet = 0
    /\ seedCalls = 0
    /\ seedState = "idle"
    /\ seedInserts = 0
    /\ seedResult = "none"
    /\ logged = 0
    /\ outcome = Pending

\* Lines 100-106.
BuildQueries ==
    /\ pc = "build"
    /\ IF buildExits(collections)
       THEN /\ pc' = "exited"
            /\ outcome' = Exited
            /\ UNCHANGED setupQueries
       ELSE /\ pc' = "run"
            /\ setupQueries' = buildSetupQueries(collections)
            /\ UNCHANGED outcome
    /\ UNCHANGED << collections, data, qi, ran, metaSet, seedCalls, seedState,
                    seedInserts, seedResult, logged >>

\* Lines 107-109, one iteration whose db.run resolves.
RunOk ==
    /\ pc = "run"
    /\ qi < Len(setupQueries)
    /\ ran' = Append(ran, [q |-> setupQueries[qi + 1], result |-> "ok"])
    /\ qi' = qi + 1
    /\ UNCHANGED << collections, data, pc, setupQueries, metaSet, seedCalls,
                    seedState, seedInserts, seedResult, logged, outcome >>

\* The rejection of db.run is dropped and the loop goes on.
RunFails_swallow ==
    /\ pc = "run"
    /\ qi < Len(setupQueries)
    /\ \E e \in ClientErrors :
         ran' = Append(ran, [q |-> setupQueries[qi + 1], result |-> e])
    /\ qi' = qi + 1
    /\ outcome' = Rejected("Error")
    /\ UNCHANGED << collections, data, pc, setupQueries, metaSet, seedCalls,
                    seedState, seedInserts, seedResult, logged >>

\* Lines 107-109, one iteration whose db.run rejects: the await throws and
\* nothing in setupDbTables catches it.
RunFails ==
    /\ pc = "run"
    /\ qi < Len(setupQueries)
    /\ \E e \in ClientErrors :
         /\ ran' = Append(ran, [q |-> setupQueries[qi + 1], result |-> e])
         /\ outcome' = Rejected(e)
    /\ pc' = "done"
    /\ UNCHANGED << collections, data, setupQueries, qi, metaSet, seedCalls,
                    seedState, seedInserts, seedResult, logged >>

\* The seed procedure is called as soon as one statement has run.
StartSeed_early ==
    /\ pc = "run"
    /\ qi >= 1
    /\ data
    /\ metaSet' = Len(collections)
    /\ seedCalls' = seedCalls + 1
    /\ seedState' = "running"
    /\ pc' = "seeding"
    /\ UNCHANGED << collections, data, setupQueries, qi, ran, seedInserts,
                    seedResult, logged, outcome >>

\* Lines 110-116 with `data` supplied: the descriptors are attached
\* (collectionToTable, _setMeta) and the seed procedure is called.
StartSeed ==
    /\ pc = "run"
    /\ qi = Len(setupQueries)
    /\ data
    /\ metaSet' = Len(collections)
    /\ seedCalls' = seedCalls + 1
    /\ seedState' = "running"
    /\ pc' = "seeding"
    /\ UNCHANGED << collections, data, setupQueries, qi, ran, seedInserts,
                    seedResult, logged, outcome >>

\* Line 110 without `data`: setupDbTables returns.
NoSeed ==
    /\ pc = "run"
    /\ qi = Len(setupQueries)
    /\ ~data
    /\ pc' = "done"
    /\ outcome' = Resolved
    /\ UNCHANGED << collections, data, setupQueries, qi, ran, metaSet, seedCalls,
                    seedState, seedInserts, seedResult, logged >>

\* Lines 117-130: the seed procedure calls seed(table, values) and the
\* insert succeeds; an array of rows gives back rows, one row gives back
\* the row (.get()).
SeedInsert ==
    /\ pc = "seeding"
    /\ seedInserts < MaxSeedInserts
    /\ seedInserts' = seedInserts + 1
    /\ \E isArray \in BOOLEAN : seedResult' = IF isArray THEN "rows" ELSE "row"
    /\ UNCHANGED << collections, data, pc, setupQueries, qi, ran, metaSet,
                    seedCalls, seedState, logged, outcome >>

\* The failure of the seed procedure leaves setupDbTables.
SeedRaises_propagate ==
    /\ pc = "seeding"
    /\ seedState' = "raised"
    /\ outcome' = Rejected("SeedFailure")
    /\ pc' = "done"
    /\ UNCHANGED << collections, data, setupQueries, qi, ran, metaSet,
                    seedCalls, seedInserts, seedResult, logged >>

\* Lines 115-138: the seed procedure raises, by itself or because one of
\* its seed(table, values) inserts was rejected; the catch logs it and
\* setupDbTables returns.
SeedRaises ==
    /\ pc = "seeding"
    /\ seedState' = "raised"
    /\ logged' = logged + 1
    /\ outcome' = Resolved
    /\ pc' = "done"
    /\ UNCHANGED << collections, data, setupQueries, qi, ran, metaSet,
                    seedCalls, seedInserts, seedResult >>

\* Lines 115-139: the seed procedure returns and so does setupDbTables.
SeedReturns ==
    /\ pc = "seeding"
    /\ seedState' = "returned"
    /\ outcome' = Resolved
    /\ pc' = "done"
    /\ UNCHANGED << collections, data, setupQueries, qi, ran, metaSet,
                    seedCalls, seedInserts, seedResult, logged >>

(***************************************************************************)
(* Write guard: createLocalDatabaseClient.                                 *)
(***************************************************************************)
Ops == {"insert", "update", "delete"}
TableNames(cols) == { cols[i].name : i \in 1..Len(cols) }
HasCollection(cols, tableName) == tableName \in TableNames(cols)
\* collections[tableName]
Lookup(cols, tableName) ==
    cols[CHOOSE i \in 1..Len(cols) : cols[i].name = tableName].collection

ReadOnlyError(tableName) == "The [" \o tableName \o "] collection is read-only."
Allowed == [threw |-> FALSE, error |-> ""]
Thrown(e) == [threw |-> TRUE, error |-> e]

\* The flag of the first collection is read, whatever the table.
checkIfModificationIsAllowed_first(cols, tableName) ==
    IF ~HasCollection(cols, tableName)
    THEN Thrown("TypeError")
    ELSE IF ~cols[1].collection.writable
         THEN Thrown(ReadOnlyError(tableName))
         ELSE Allowed

\* Lines 48-54.  A table that is no key of `collections` makes the read of
\* `collection.writable` throw a TypeError.
checkIfModificationIsAllowed(cols, tableName) ==
    IF ~HasCollection(cols, tableName)
    THEN Thrown("TypeError")
    ELSE IF ~Lookup(cols, tableName).writable
         THEN Thrown(ReadOnlyError(tableName))
         ELSE Allowed

\* The builder drizzle's own insert/update/delete gives back for its n-th call.
Builder(op, tableName, n) == [op |-> op, table |-> tableName, id |-> n]
NoBuilder == Builder("none", "none", 0)
NoCall == [op |-> "none", table |-> "none", threw |-> FALSE, error |-> "", result |-> NoBuilder]

InitIdleGuard ==
    /\ seeding = FALSE
    /\ underlying = << >>
    /\ calls = 0
    /\ lastCall = NoCall

\* drizzleInsert.call(this, Table) and its siblings (lines 74, 78, 82), also
\* reached directly when `seeding` made line 68 return the bare client.
Delegate(op, tableName) ==
    /\ underlying' = Append(underlying, [op |-> op, table |-> tableName])
    /\ lastCall' = [op |-> op, table |-> tableName, threw |-> FALSE, error |-> "",
                    result |-> Builder(op, tableName, Len(underlying) + 1)]

\* One call of client.insert / update / delete (lines 72-83).
Mutation(op, tableName) ==
    /\ pc = "client"
    /\ calls < MaxCalls
    /\ calls' = calls + 1
    /\ IF seeding
       THEN Delegate(op, tableName)
       ELSE LET chk == checkIfModificationIsAllowed(collections, tableName)
            IN  IF chk.threw
                THEN /\ lastCall' = [op |-> op, table |-> tableName, threw |-> TRUE,
                                     error |-> chk.error, result |-> NoBuilder]
                     /\ UNCHANGED underlying
                ELSE Delegate(op, tableName)
    /\ UNCHANGED << collections, seeding >>

Insert == \E t \in TableNames(collections) \cup {"unknown"} : Mutation("insert", t)
Update == \E t \in TableNames(collections) \cup {"unknown"} : Mutation("update", t)
Delete == \E t \in TableNames(collections) \cup {"unknown"} : Mutation("delete", t)

\* The owner of the `collections` object handed to createLocalDatabaseClient
\* changes a `writable` flag between two calls; the client keeps the
\* reference (line 57), not a copy.
SetWritable ==
    /\ pc = "client"
    /\ \E i \in 1..Len(collections) :
         collections' = [collections EXCEPT
                           ![i].collection.writable = ~collections[i].collection.writable]
    /\ UNCHANGED << seeding, underlying, calls, lastCall >>

(***************************************************************************)
(* Specifications.                                                         *)
(***************************************************************************)
TextField == [type |-> "text", optional |-> FALSE, unique |-> FALSE,
              primaryKey |-> FALSE, default |-> NoDefault]
NumberKey == [type |-> "number", optional |-> FALSE, unique |-> FALSE,
              primaryKey |-> TRUE, default |-> NoDefault]
JsonField(j) == [type |-> "json", optional |-> TRUE, unique |-> FALSE,
                 primaryKey |-> FALSE, default |-> JsonDefault(j)]
IndexOn(on, unique) == [on |-> on, unique |-> unique]

SetupCollections ==
    Collections({ << TextField >>,
                  << TextField, JsonField("cyclic") >>,
                  << NumberKey, JsonField("obj") >> },
                { << >>,
                  << IndexOn(<<"f1">>, FALSE) >>,
                  << IndexOn(<<"f1">>, FALSE), IndexOn(<<"f1", "missing">>, TRUE) >> },
                {TRUE})

GuardCollections == Collections({ << TextField >> }, { << >> }, BOOLEAN)

\* One field through getModifiers and columnMapper.
InitField ==
    /\ field \in Fields
    /\ modifiers = NotRun
    /\ column = NotRun
    /\ InitIdleTable
    /\ collections = << >>
    /\ InitIdleSetup
    /\ InitIdleGuard

NextField ==
    \/ GetModifiers /\ UNCHANGED << tableVars, collections, setupVars, guardVars >>
    \/ ColumnMapper /\ UNCHANGED << tableVars, collections, setupVars, guardVars >>

SpecField == InitField /\ [][NextField]_vars

\* One collection through the DDL generator and the descriptor builder.
InitTable ==
    /\ InitIdleField
    /\ collection \in Collections(SeqsUpTo(TableFields, MaxFields),
                                  SeqsUpTo(IndexValues, MaxIndexes), {TRUE})
    /\ createQuery = NotRun
    /\ indexQueries = NotRun
    /\ table = NotRun
    /\ collections = << >>
    /\ InitIdleSetup
    /\ InitIdleGuard

NextTable ==
    \/ GetCreateTableQuery /\ UNCHANGED << fieldVars, collections, setupVars, guardVars >>
    \/ GetTableIndexQueries /\ UNCHANGED << fieldVars, collections, setupVars, guardVars >>
    \/ CollectionToTable /\ UNCHANGED << fieldVars, collections, setupVars, guardVars >>

SpecTable == InitTable /\ [][NextTable]_vars

\* One run of setupDbTables.
InitSetup ==
    /\ InitIdleField
    /\ InitIdleTable
    /\ collections \in CollectionMaps(SetupCollections, 0)
    /\ data \in BOOLEAN
    /\ pc = "build"
    /\ setupQueries = << >>
    /\ qi = 0
    /\ ran = << >>
    /\ metaSet = 0
    /\ seedCalls = 0
    /\ seedState = "idle"
    /\ seedInserts = 0
    /\ seedResult = "none"
    /\ logged = 0
    /\ outcome = Pending
    /\ InitIdleGuard

NextSetup ==
    \/ BuildQueries /\ UNCHANGED << fieldVars, tableVars, guardVars >>
    \/ RunOk /\ UNCHANGED << fieldVars, tableVars, guardVars >>
    \/ RunFails /\ UNCHANGED << fieldVars, tableVars, guardVars >>
    \/ StartSeed /\ UNCHANGED << fieldVars, tableVars, guardVars >>
    \/ NoSeed /\ UNCHANGED << fieldVars, tableVars, guardVars >>
    \/ SeedInsert /\ UNCHANGED << fieldVars, tableVars, guardVars >>
    \/ SeedRaises /\ UNCHANGED << fieldVars, tableVars, guardVars >>
    \/ SeedReturns /\ UNCHANGED << fieldVars, tableVars, guardVars >>

SpecSetup == InitSetup /\ [][NextSetup]_vars

\* A client made by createLocalDatabaseClient and the calls made on it.
InitGuard ==
    /\ InitIdleField
    /\ InitIdleTable
    /\ collections \in CollectionMaps(GuardCollections, 1)
    /\ data = FALSE
    /\ pc = "client"
    /\ setupQueries = << >>
    /\ qi = 0
    /\ ran = << >>
    /\ metaSet = 0
    /\ seedCalls = 0
    /\ seedState = "idle"
    /\ seedInserts = 0
    /\ seedResult = "none"
    /\ logged = 0
    /\ outcome = Pending
    /\ seeding \in BOOLEAN
    /\ underlying = << >>
    /\ calls = 0
    /\ lastCall = NoCall

NextGuard ==
    \/ Insert /\ UNCHANGED << fieldVars, tableVars, setupVars >>
    \/ Update /\ UNCHANGED << fieldVars, tableVars, setupVars >>
    \/ Delete /\ UNCHANGED << fieldVars, tableVars, setupVars >>
    \/ SetWritable /\ UNCHANGED << fieldVars, tableVars, setupVars >>

SpecGuard == InitGuard /\ [][NextGuard]_vars

(***************************************************************************)
(* Properties.                                                             *)
(***************************************************************************)

\* C1 (SpecGuard): on a client made with seeding = false, a call of insert,
\* update or delete on a table of `collections` raises the read-only error
\* and reaches no underlying operation when the collection's writable flag is
\* false at the time of the call; when it is true, the underlying operation
\* of the same name is called exactly once and its builder is returned as is.
C1_WriteGuard ==
    [][ (calls' = calls + 1 /\ ~seeding /\ HasCollection(collections, lastCall'.table))
        => IF ~Lookup(collections, lastCall'.table).writable
           THEN /\ lastCall'.threw
                /\ lastCall'.error = ReadOnlyError(lastCall'.table)
                /\ underlying' = underlying
           ELSE /\ ~lastCall'.threw
                /\ Len(underlying') = Len(underlying) + 1
                /\ SubSeq(underlying', 1, Len(underlying)) = underlying
                /\ underlying'[Len(underlying')] =
                       [op |-> lastCall'.op, table |-> lastCall'.table]
                /\ lastCall'.result =
                       Builder(lastCall'.op, lastCall'.table, Len(underlying')) ]_vars

\* A call was refused on a collection on which an earlier call went through.
C1_Witness ==
    /\ ~seeding
    /\ calls >= 2
    /\ lastCall.threw
    /\ lastCall.error = ReadOnlyError(lastCall.table)
    /\ \E i \in 1..Len(underlying) : underlying[i].table = lastCall.table

CollectionIndex(name) == CHOOSE i \in 1..Len(collections) : collections[i].name = name
KindRank(kind) == CASE kind = "drop" -> 1 [] kind = "create" -> 2 [] kind = "index" -> 3

\* C2 as stated (SpecSetup): the statements run in the phases Dropping,
\* Creating, Indexing: no DROP TABLE runs after a CREATE TABLE and no
\* CREATE TABLE runs after a CREATE INDEX.
C2_PhaseOrder ==
    \A i, j \in 1..Len(ran) :
        i < j => KindRank(ran[i].q.kind) <= KindRank(ran[j].q.kind)

\* C2 amended (SpecSetup): the statements run collection by collection in the
\* insertion order of the mapping, and within one collection in the order
\* DROP TABLE, CREATE TABLE, then its CREATE INDEX statements; a collection's
\* CREATE TABLE is preceded by its DROP TABLE and each of its CREATE INDEX
\* statements by its CREATE TABLE.
C2_PerCollectionOrder ==
    /\ \A i, j \in 1..Len(ran) :
        i < j =>
          /\ CollectionIndex(ran[i].q.collection) <= CollectionIndex(ran[j].q.collection)
          /\ ran[i].q.collection = ran[j].q.collection
               => KindRank(ran[i].q.kind) <= KindRank(ran[j].q.kind)
    /\ \A j \in 1..Len(ran) :
          /\ ran[j].q.kind = "create" =>
               \E i \in 1..(j - 1) : /\ ran[i].q.kind = "drop"
                                     /\ ran[i].q.collection = ran[j].q.collection
          /\ ran[j].q.kind = "index" =>
               \E i \in 1..(j - 1) : /\ ran[i].q.kind = "create"
                                     /\ ran[i].q.collection = ran[j].q.collection

\* A finished run over two collections that both have an index.
C2_Witness ==
    /\ pc = "done"
    /\ Len(collections) >= 2
    /\ Len(ran) = Len(setupQueries)
    /\ \A c \in 1..2 : \E i \in 1..Len(ran) :
          ran[i].q.kind = "index" /\ ran[i].q.collection = collections[c].name

\* C3 (SpecSetup): when db.run fails on the k-th statement, setupDbTables
\* fails with that very error, the k-th statement is the last one handed to
\* the client, and the seed procedure is not called.
C3_DdlFailureAborts ==
    /\ [](outcome.kind = "rejected" =>
            /\ pc = "done"
            /\ Len(ran) = qi + 1
            /\ ran[Len(ran)].q = setupQueries[qi + 1]
            /\ ran[Len(ran)].result \in ClientErrors
            /\ outcome.error = ran[Len(ran)].result
            /\ \A i \in 1..qi : ran[i].result = "ok"
            /\ seedCalls = 0
            /\ seedState = "idle")
    /\ [][outcome.kind = "rejected" => (ran' = ran /\ seedCalls' = seedCalls)]_vars

\* A failure in the middle of the sequence of a run that has a seed procedure.
C3_Witness ==
    /\ outcome.kind = "rejected"
    /\ data
    /\ qi >= 1
    /\ qi + 1 < Len(setupQueries)

AllDdlRan ==
    /\ qi = Len(setupQueries)
    /\ Len(ran) = Len(setupQueries)
    /\ \A i \in 1..Len(ran) : ran[i] = [q |-> setupQueries[i], result |-> "ok"]

\* C4 (SpecSetup): when the seed procedure raises, setupDbTables logs the
\* failure once and returns normally; every DDL statement has been run once
\* and none is run again.
C4_SeedFailureAbsorbed ==
    seedState = "raised" =>
        /\ pc = "done"
        /\ outcome = Resolved
        /\ logged = 1
        /\ AllDdlRan

\* The seed procedure raised after a successful insert, over a real schema.
C4_Witness ==
    /\ seedState = "raised"
    /\ seedInserts >= 1
    /\ Len(ran) >= 3

\* C5 (SpecSetup): the seed procedure is called at most once and only once
\* every DDL statement has completed; it has been called exactly once when a
\* run with a seed procedure ends with all DDL done, and never without one.
C5_SeedOnceAfterDdl ==
    /\ seedCalls <= 1
    /\ seedCalls = 1 => (data /\ AllDdlRan)
    /\ ~data => seedCalls = 0
    /\ (pc = "done" /\ data /\ AllDdlRan) => seedCalls = 1

\* A finished run that called the seed procedure after at least four statements.
C5_Witness ==
    /\ pc = "done"
    /\ seedCalls = 1
    /\ Len(ran) >= 4

HasUnserializableJsonDefault(cols) ==
    \E i \in 1..Len(cols) : \E k \in 1..Len(cols[i].collection.fields) :
        LET f == cols[i].collection.fields[k].field
        IN  f.type = "json" /\ f.default.def /\ JSONstringify(f.default.json).throws

\* C6 (SpecSetup): when some collection has a Json field whose default cannot
\* be serialized, no statement at all reaches the client and the seed
\* procedure is not called.
C6_BadJsonAbortsBeforeDdl ==
    HasUnserializableJsonDefault(collections) =>
        /\ ran = << >>
        /\ seedCalls = 0
        /\ pc \in {"build", "exited"}

\* The run ended on the faulty default of the second collection, the first
\* collection being sound.
C6_Witness ==
    /\ pc = "exited"
    /\ Len(collections) >= 2
    /\ ~HasUnserializableJsonDefault(SubSeq(collections, 1, 1))
    /\ data

BothPathsRan == modifiers.done /\ column.done /\ ~modifiers.result.exit

\* C7 as stated (SpecField): for every field, the column clause carries a
\* DEFAULT exactly when the column descriptor has a default applied, and both
\* equal hasDefault(field).
C7_DefaultAgreement ==
    BothPathsRan =>
        /\ modifiers.result.hasDefault = column.result.hasDefault
        /\ column.result.hasDefault = hasDefault(field)

\* C7 amended (SpecField): for every field that is not a primary key, the
\* column clause carries a DEFAULT exactly when the column descriptor has a
\* default applied, and both equal hasDefault(field); for a primary-key field
\* the modifiers are PRIMARY KEY alone, without DEFAULT, and the descriptor
\* has a default applied exactly when an explicit default is set.
C7_DefaultAgreementOffKey ==
    BothPathsRan =>
        IF hasPrimaryKey(field)
        THEN /\ modifiers.result.sql = " PRIMARY KEY"
             /\ ~modifiers.result.hasDefault
             /\ column.result.hasDefault = field.default.def
        ELSE /\ modifiers.result.hasDefault = column.result.hasDefault
             /\ column.result.hasDefault = hasDefault(field)

\* Both paths ran on a boolean field whose default is false.
C7_Witness ==
    /\ BothPathsRan
    /\ field.type = "boolean"
    /\ field.default.def
    /\ ~field.default.bool
    /\ modifiers.result.hasDefault

ColumnsExist(c, on) == \A i \in 1..Len(on) : on[i] \in FieldNames(c)

\* C8 as stated (SpecTable): getTableIndexQueries gives no statement for an
\* index that names a column the collection lacks, and one statement for
\* each index whose columns all exist.
C8_IndexOmission ==
    indexQueries.done =>
        Len(indexQueries.result) =
            Cardinality({ k \in 1..Len(collection.indexes) :
                            ColumnsExist(collection, collection.indexes[k].props.on) })

\* C8 amended (SpecTable): getTableIndexQueries gives exactly one statement
\* for every declared index, in declaration order, whether or not the
\* columns it names exist, and raises no error.
C8_OneStatementPerIndex ==
    indexQueries.done =>
        /\ Len(indexQueries.result) = Len(collection.indexes)
        /\ \A k \in 1..Len(collection.indexes) :
              indexQueries.result[k] =
                  indexQuery("posts", collection.indexes[k].name,
                             collection.indexes[k].props)

\* The statements of a collection with one index on an existing column and
\* one on a missing column.
C8_Witness ==
    /\ indexQueries.done
    /\ Len(collection.fields) >= 1
    /\ Len(collection.indexes) = 2
    /\ ColumnsExist(collection, collection.indexes[1].props.on)
    /\ collection.indexes[1].props.on # << >>
    /\ ~ColumnsExist(collection, collection.indexes[2].props.on)
    /\ Len(indexQueries.result) = 2

\* C9 (SpecField): the default literal of a Number field is the numeric
\* literal of the explicit default whenever one is set, 0 included, and the
\* autoincrement marker only when none is set.
C9_NumberDefaultLiteral ==
    (modifiers.done /\ field.type = "number" /\ modifiers.result.hasDefault) =>
        modifiers.result.defaultSql =
            IF field.default.def THEN ToString(field.default.num) ELSE "AUTOINCREMENT"

HasKey(c) == \E i \in 1..Len(c.fields) : hasPrimaryKey(c.fields[i].field)

\* C10 (SpecTable): the column list of the CREATE TABLE statement is the
\* synthesized `_id INTEGER PRIMARY KEY` column, first, if and only if no
\* declared field is a primary key, followed by one clause per declared
\* field in definition order, and nothing else.
C10_ColumnList ==
    (createQuery.done /\ ~createQuery.result.exit) =>
        LET cols == createQuery.result.colQueries
            n == Len(collection.fields)
            off == IF HasKey(collection) THEN 0 ELSE 1
        IN  /\ Len(cols) = n + off
            /\ off = 1 => cols[1] = "_id INTEGER PRIMARY KEY"
            /\ \A i \in 1..n :
                  cols[off + i] =
                      colQuery(collection.fields[i].name, collection.fields[i].field)
            /\ \A i \in 1..Len(cols) :
                  cols[i] = "_id INTEGER PRIMARY KEY" => (off = 1 /\ i = 1)
            /\ createQuery.result.sql =
                  "CREATE TABLE \"posts\" (" \o join(cols, ", ") \o ")"

\* The statement of a collection of two fields, the second one its key.
C10_Witness ==
    /\ createQuery.done
    /\ ~createQuery.result.exit
    /\ Len(collection.fields) = 2
    /\ hasPrimaryKey(collection.fields[2].field)
    /\ ~hasPrimaryKey(collection.fields[1].field)
    /\ Len(createQuery.result.colQueries) = 2

====
